---- MODULE Spec2Model ----
(***************************************************************************)
(* Model of src/src/index.ts: parseJson, JSONError, getErrorLocation,      *)
(* addCodePointToUnexpectedToken and getCodePoint.                         *)
(*                                                                         *)
(* A JavaScript string is a sequence of UTF-16 code units; every unit is   *)
(* written as a TLA+ string ("a", "}", "\n"; "HI" and "LO" are the two     *)
(* units of one surrogate pair).  `undefined` is the value Undefined for   *)
(* string-valued slots and the empty tuple NoLocation for a location.      *)
(***************************************************************************)
EXTENDS Integers, Sequences, FiniteSets, TLC

\* ------------------------------------------------------------------ bounds
MaxTextLen == 2
MaxOffset == 3

\* ------------------------------------------------------ values and literals
Undefined == <<"undefined">>
NoLocation == <<>>

Truthy(v) == v # Undefined /\ v # <<>>

Digits == <<"0", "1", "2", "3", "4", "5", "6", "7", "8", "9">>
HexDigits == <<"0", "1", "2", "3", "4", "5", "6", "7", "8", "9", "a", "b", "c", "d", "e", "f">>

IsDigit(c) == \E i \in 1..Len(Digits) : Digits[i] = c

\* the value of one decimal digit character
DigitValue(c) == (CHOOSE i \in 1..Len(Digits) : Digits[i] = c) - 1

\* `.` of a regular expression without the s flag: any unit but a line terminator
IsLineTerminator(c) == c \in {"\n", "\r"}

UnexpectedTokenPrefix ==
    <<"U", "n", "e", "x", "p", "e", "c", "t", "e", "d", " ", "t", "o", "k", "e", "n", " ">>
InJsonAtPosition ==
    <<"i", "n", " ", "J", "S", "O", "N", " ", "a", "t", " ", "p", "o", "s", "i", "t", "i", "o", "n", " ">>
LineOpen == <<" ", "(", "l", "i", "n", "e", " ">>
ColumnOpen == <<" ", "c", "o", "l", "u", "m", "n", " ">>
GroupClose == <<")">>
EmptyStringClause ==
    <<" ", "w", "h", "i", "l", "e", " ", "p", "a", "r", "s", "i", "n", "g", " ",
      "e", "m", "p", "t", "y", " ", "s", "t", "r", "i", "n", "g">>
InFile == <<" ", "i", "n", " ">>

\* String.prototype.startsWith(lit, i - 1), with 1-based i
MatchesAt(s, i, lit) ==
    /\ i + Len(lit) - 1 <= Len(s)
    /\ \A k \in 1..Len(lit) : s[i + k - 1] = lit[k]

\* the 1-based index just after the longest run of digits that starts at i (\d+, greedy)
RECURSIVE DigitRunEnd(_, _)
DigitRunEnd(s, i) ==
    IF i <= Len(s) /\ IsDigit(s[i]) THEN DigitRunEnd(s, i + 1) ELSE i

\* Number(digits) for a non-empty string of decimal digits
RECURSIVE Number(_)
Number(d) ==
    IF Len(d) = 0 THEN 0
    ELSE 10 * Number(SubSeq(d, 1, Len(d) - 1)) + DigitValue(d[Len(d)])

\* Number.prototype.toString(16)
RECURSIVE ToHex(_)
ToHex(n) ==
    IF n < 16 THEN <<HexDigits[n + 1]>>
    ELSE ToHex(n \div 16) \o <<HexDigits[(n % 16) + 1]>>

\* Number.prototype.toString(10), as the parser formats offsets, lines and columns
RECURSIVE ToDecimal(_)
ToDecimal(n) ==
    IF n < 10 THEN <<Digits[n + 1]>>
    ELSE ToDecimal(n \div 10) \o <<Digits[(n % 10) + 1]>>

\* String.prototype.codePointAt(0) of a one-unit string
CodePointAt0(c) ==
    CASE c = "\n" -> 10
      [] c = " " -> 32
      [] c = "'" -> 39
      [] c = "a" -> 97
      [] c = "b" -> 98
      [] c = "x" -> 120
      [] c = "}" -> 125
      [] c = "HI" -> 55357

\* getCodePoint: `\u{` + hex of the code point + `}`
getCodePoint(character) ==
    <<"\\", "u", "{">> \o ToHex(CodePointAt0(character)) \o <<"}">>

\* ------------------------------------------------ external collaborators
\* number of code points of a sequence of UTF-16 units (a HI unit followed by a
\* LO unit is one code point, every other unit is one on its own)
RECURSIVE CodePointCount(_)
CodePointCount(s) ==
    IF Len(s) = 0 THEN 0
    ELSE IF Len(s) >= 2 /\ s[1] = "HI" /\ s[2] = "LO"
         THEN 1 + CodePointCount(SubSeq(s, 3, Len(s)))
         ELSE 1 + CodePointCount(Tail(s))

\* the 0-based offset at which the line holding offset `index` starts
RECURSIVE LineStart(_, _)
LineStart(text, index) ==
    IF index = 0 THEN 0
    ELSE IF text[index] = "\n" THEN index
    ELSE LineStart(text, index - 1)

\* the number of line terminators before offset `index`
RECURSIVE TerminatorsBefore(_, _)
TerminatorsBefore(text, index) ==
    IF index = 0 THEN 0
    ELSE TerminatorsBefore(text, index - 1) + (IF text[index] = "\n" THEN 1 ELSE 0)

\* indexToPosition(text, index, {oneBased: true}): the Position Converter.
\* 0 <= index <= length(text), else it throws (OutOfRange).
indexToPosition(text, index) ==
    IF index < 0 \/ index > Len(text)
    THEN [threw |-> TRUE, line |-> 0, column |-> 0]
    ELSE [threw |-> FALSE,
          line |-> 1 + TerminatorsBefore(text, index),
          column |-> 1 + CodePointCount(SubSeq(text, LineStart(text, index) + 1, index))]

\* the lines of a text, split at line terminators
RECURSIVE SplitLines(_)
SplitLines(text) ==
    IF \A i \in 1..Len(text) : text[i] # "\n" THEN <<text>>
    ELSE LET i == CHOOSE k \in 1..Len(text) :
                      text[k] = "\n" /\ \A j \in 1..(k - 1) : text[j] # "\n"
         IN <<SubSeq(text, 1, i - 1)>> \o SplitLines(SubSeq(text, i + 1, Len(text)))

Spaces(n) == [i \in 1..n |-> " "]

\* one source line of a frame, with its gutter; the target line is followed by
\* the marker line that puts a caret under the column
FrameLine(lines, n, location) ==
    <<(IF n = location[1] THEN ">" ELSE " "), " ">> \o ToDecimal(n) \o <<" ", "|", " ">>
        \o lines[n] \o <<"\n">>
        \o (IF n = location[1]
            THEN <<" ", " ">> \o Spaces(Len(ToDecimal(n))) \o <<" ", "|", " ">>
                     \o Spaces(location[2] - 1) \o <<"^", "\n">>
            ELSE <<>>)

RECURSIVE FrameLines(_, _, _, _)
FrameLines(lines, from, to, location) ==
    IF from > to THEN <<>>
    ELSE FrameLine(lines, from, location) \o FrameLines(lines, from + 1, to, location)

\* codeFrameColumns(string, {start: location}, {highlightCode}): the Code-Frame
\* Renderer.  Two lines above and three below the target line, clamped to the
\* text; the highlighted variant is wrapped in terminal styling (unit "ESC").
codeFrameColumns(string, location, highlightCode) ==
    LET lines == SplitLines(string)
        from == IF location[1] - 2 < 1 THEN 1 ELSE location[1] - 2
        to == IF location[1] + 3 > Len(lines) THEN Len(lines) ELSE location[1] + 3
        body == FrameLines(lines, from, to, location)
    IN IF highlightCode THEN <<"ESC">> \o body \o <<"ESC">> ELSE body

\* ------------------------------------------------------------- index.ts
\* generateCodeFrame(string, location, highlightCode = true)
generateCodeFrame(string, location, highlightCode) ==
    codeFrameColumns(string, location, highlightCode)

NoMatch == [found |-> FALSE, index |-> Undefined, line |-> Undefined, column |-> Undefined]

\* LocationMatchAt with the final $ of the pattern left out
LocationMatchAtUnanchored(s, i) ==
    LET j == i + Len(InJsonAtPosition)
        e == DigitRunEnd(s, j)
        l1 == e + Len(LineOpen)
        l2 == DigitRunEnd(s, l1)
        c1 == l2 + Len(ColumnOpen)
        c2 == DigitRunEnd(s, c1)
    IN IF ~MatchesAt(s, i, InJsonAtPosition) \/ e = j THEN NoMatch
       ELSE IF /\ MatchesAt(s, e, LineOpen)
               /\ l2 > l1
               /\ MatchesAt(s, l2, ColumnOpen)
               /\ c2 > c1
               /\ MatchesAt(s, c2, GroupClose)
       THEN [found |-> TRUE, index |-> SubSeq(s, j, e - 1),
             line |-> SubSeq(s, l1, l2 - 1), column |-> SubSeq(s, c1, c2 - 1)]
       ELSE [found |-> TRUE, index |-> SubSeq(s, j, e - 1),
             line |-> Undefined, column |-> Undefined]

\* the regular expression of getErrorLocation tried at start index i:
\* in JSON at position (\d+)(?: \(line (\d+) column (\d+)\))?$
LocationMatchAt(s, i) ==
    LET j == i + Len(InJsonAtPosition)
        e == DigitRunEnd(s, j)
        l1 == e + Len(LineOpen)
        l2 == DigitRunEnd(s, l1)
        c1 == l2 + Len(ColumnOpen)
        c2 == DigitRunEnd(s, c1)
    IN IF ~MatchesAt(s, i, InJsonAtPosition) \/ e = j THEN NoMatch
       ELSE IF e = Len(s) + 1
       THEN [found |-> TRUE, index |-> SubSeq(s, j, e - 1),
             line |-> Undefined, column |-> Undefined]
       ELSE IF /\ MatchesAt(s, e, LineOpen)
               /\ l2 > l1
               /\ MatchesAt(s, l2, ColumnOpen)
               /\ c2 > c1
               /\ MatchesAt(s, c2, GroupClose)
               /\ c2 = Len(s)
       THEN [found |-> TRUE, index |-> SubSeq(s, j, e - 1),
             line |-> SubSeq(s, l1, l2 - 1), column |-> SubSeq(s, c1, c2 - 1)]
       ELSE NoMatch

\* RegExp(...).exec(message): the leftmost match
LocationMatch(s) ==
    IF \E i \in 1..Len(s) : LocationMatchAt(s, i).found
    THEN LocationMatchAt(s, CHOOSE i \in 1..Len(s) :
             /\ LocationMatchAt(s, i).found
             /\ \A k \in 1..(i - 1) : ~LocationMatchAt(s, k).found)
    ELSE NoMatch

\* getErrorLocation without the end-of-input rule of lines 126-131
getErrorLocationWithoutSentinel(string, msg) ==
    LET match == LocationMatch(msg)
        parsedIndex == Number(match.index)
        direct == indexToPosition(string, parsedIndex)
    IN IF ~match.found
       THEN [threw |-> FALSE, location |-> NoLocation, calls |-> <<>>]
       ELSE IF Truthy(match.line) /\ Truthy(match.column)
       THEN [threw |-> FALSE,
             location |-> <<Number(match.line), Number(match.column)>>,
             calls |-> <<>>]
       ELSE [threw |-> direct.threw,
             location |-> IF direct.threw THEN NoLocation
                          ELSE <<direct.line, direct.column>>,
             calls |-> <<parsedIndex>>]

\* getErrorLocation without the line/column rule of lines 121-123
getErrorLocationFromOffsetOnly(string, msg) ==
    LET match == LocationMatch(msg)
        parsedIndex == Number(match.index)
        last == indexToPosition(string, Len(string) - 1)
        direct == indexToPosition(string, parsedIndex)
    IN IF ~match.found
       THEN [threw |-> FALSE, location |-> NoLocation, calls |-> <<>>]
       ELSE IF parsedIndex = Len(string)
       THEN [threw |-> last.threw,
             location |-> IF last.threw THEN NoLocation
                          ELSE <<last.line, last.column + 1>>,
             calls |-> <<Len(string) - 1>>]
       ELSE [threw |-> direct.threw,
             location |-> IF direct.threw THEN NoLocation
                          ELSE <<direct.line, direct.column>>,
             calls |-> <<parsedIndex>>]

\* getErrorLocation(string, message).  threw: indexToPosition threw and the
\* exception leaves getErrorLocation; calls: the offsets handed to indexToPosition.
getErrorLocation(string, msg) ==
    LET match == LocationMatch(msg)
        parsedIndex == Number(match.index)
        last == indexToPosition(string, Len(string) - 1)
        direct == indexToPosition(string, parsedIndex)
    IN IF ~match.found
       THEN [threw |-> FALSE, location |-> NoLocation, calls |-> <<>>]
       ELSE IF Truthy(match.line) /\ Truthy(match.column)
       THEN [threw |-> FALSE,
             location |-> <<Number(match.line), Number(match.column)>>,
             calls |-> <<>>]
       ELSE IF parsedIndex = Len(string)
       THEN [threw |-> last.threw,
             location |-> IF last.threw THEN NoLocation
                          ELSE <<last.line, last.column + 1>>,
             calls |-> <<Len(string) - 1>>]
       ELSE [threw |-> direct.threw,
             location |-> IF direct.threw THEN NoLocation
                          ELSE <<direct.line, direct.column>>,
             calls |-> <<parsedIndex>>]

\* the replacement callback of addCodePointToUnexpectedToken
TokenReplacement(token) ==
    <<"\"", token, "\"", "(">> \o getCodePoint(token) \o <<")">>

\* addCodePointToUnexpectedToken(message): replace the first match of
\* (?<=^Unexpected token )(?<quote>')?(.)\k<quote>
addCodePointToUnexpectedToken(msg) ==
    LET p == Len(UnexpectedTokenPrefix) + 1
    IN IF ~MatchesAt(msg, 1, UnexpectedTokenPrefix) THEN msg
       ELSE IF /\ p + 2 <= Len(msg)
               /\ msg[p] = "'"
               /\ ~IsLineTerminator(msg[p + 1])
               /\ msg[p + 2] = "'"
       THEN UnexpectedTokenPrefix \o TokenReplacement(msg[p + 1])
                \o SubSeq(msg, p + 3, Len(msg))
       ELSE IF p <= Len(msg) /\ ~IsLineTerminator(msg[p])
       THEN UnexpectedTokenPrefix \o TokenReplacement(msg[p])
                \o SubSeq(msg, p + 1, Len(msg))
       ELSE msg

\* ------------------------------------------------- the external parser
\* A thrown value: its class, who raised it and its message.
NoThrown == [class |-> "none", origin |-> "none", message |-> Undefined]
NoValue == [text |-> Undefined, revivedBy |-> Undefined]

\* error instanceof Error
InstanceofError(thrown) == thrown.class \in {"SyntaxError", "TypeError", "RangeError"}

\* error.message of the failure described by fault f: head, then the location
\* clause in the form f.tail names
RawMessage(f) ==
    f.head \o
    (CASE f.tail = "none" -> <<>>
       [] f.tail = "offset" -> <<" ">> \o InJsonAtPosition \o f.offset
       [] f.tail = "full" ->
            <<" ">> \o InJsonAtPosition \o f.offset
                \o LineOpen \o f.line \o ColumnOpen \o f.column \o GroupClose
       [] f.tail = "broken" -> <<" ">> \o InJsonAtPosition \o f.offset \o <<" ", "x">>)

\* JSON.parse(text, reviver), a black box steered by fault f: it returns a value
\* fixed by its two arguments, or throws.  A reviver that is absent cannot throw.
JSONParse(text, rev, f) ==
    IF f.class = "none" \/ (f.origin = "reviver" /\ rev = Undefined)
    THEN [kind |-> "value", value |-> [text |-> text, revivedBy |-> rev], thrown |-> NoThrown]
    ELSE [kind |-> "throw", value |-> NoValue,
          thrown |-> [class |-> f.class, origin |-> f.origin,
                      message |-> IF f.class = "NotAnError" THEN Undefined
                                  ELSE RawMessage(f)]]

\* ------------------------------------------------------------ JSONError
NoError == [constructed |-> FALSE, baseMessage |-> Undefined, fileName |-> Undefined,
            codeFrame |-> Undefined, rawCodeFrame |-> Undefined]

\* new JSONError(message, jsonString, location)
JSONErrorNew(msg, jsonString, loc) ==
    [constructed |-> TRUE,
     baseMessage |-> msg,
     fileName |-> Undefined,
     codeFrame |-> IF Truthy(jsonString) /\ loc # NoLocation
                   THEN generateCodeFrame(jsonString, loc, TRUE) ELSE Undefined,
     rawCodeFrame |-> IF Truthy(jsonString) /\ loc # NoLocation
                      THEN generateCodeFrame(jsonString, loc, FALSE) ELSE Undefined]

\* get message() without the file name
JSONErrorMessageWithoutFileName(e) ==
    e.baseMessage \o (IF Truthy(e.codeFrame)
                      THEN <<"\n", "\n">> \o e.codeFrame \o <<"\n">> ELSE <<>>)

\* get message()
JSONErrorMessage(e) ==
    LET locationInfo == IF Truthy(e.fileName) THEN InFile \o e.fileName ELSE <<>>
        frameInfo == IF Truthy(e.codeFrame)
                     THEN <<"\n", "\n">> \o e.codeFrame \o <<"\n">> ELSE <<>>
    IN e.baseMessage \o locationInfo \o frameInfo

\* set message(message) that also drops the highlighted frame
JSONErrorSetMessageDroppingFrame(e, msg) ==
    [e EXCEPT !.baseMessage = msg, !.codeFrame = Undefined]

\* set message(message)
JSONErrorSetMessage(e, msg) == [e EXCEPT !.baseMessage = msg]

\* ------------------------------------------------------------ parseJson
\* the try block calling the external parser without the reviver
parseJsonTryWithoutReviver(str, rev, f) ==
    [args |-> <<str, Undefined>>, out |-> JSONParse(str, Undefined, f)]

\* the try block: the call handed to the external parser and what it does
parseJsonTry(str, rev, f) ==
    [args |-> <<str, rev>>, out |-> JSONParse(str, rev, f)]

\* the location computed for a caught failure
parseJsonLocation(str, msg) ==
    IF Truthy(str) THEN getErrorLocation(str, msg)
    ELSE [threw |-> FALSE, location |-> NoLocation, calls |-> <<>>]

\* the base message without the test for the empty text
parseJsonMessageIgnoringEmpty(str, msg) == addCodePointToUnexpectedToken(msg)

\* the base message computed for a caught failure
parseJsonMessage(str, msg) ==
    IF Truthy(str) THEN addCodePointToUnexpectedToken(msg)
    ELSE msg \o EmptyStringClause

\* jsonError.fileName = fileName, after construction
parseJsonAttach(e, name) == [e EXCEPT !.fileName = name]

\* ---------------------------------------------------------------- inputs
TextUnits == {"{", "\n", "HI", "LO"}
Texts == UNION {[1..n -> TextUnits] : n \in 0..MaxTextLen}

Revivers == {Undefined, <<"r">>}
FileNames == {Undefined, <<"f">>}
AssignedFileNames == {Undefined, <<>>, <<"g">>}
AssignedMessages == {<<"m">>}

UnexpectedEnd == <<"U", "n", "e", "x", "p", "e", "c", "t", "e", "d", " ", "e", "n", "d">>
Heads ==
    { UnexpectedTokenPrefix \o <<"}">>,
      UnexpectedTokenPrefix \o <<"'", "}", "'">>,
      UnexpectedTokenPrefix \o <<"a", "b">>,
      UnexpectedTokenPrefix \o <<"'", "\n", "'">>,
      UnexpectedTokenPrefix \o <<"\n">>,
      UnexpectedTokenPrefix \o <<"HI", "LO">>,
      UnexpectedTokenPrefix,
      UnexpectedEnd,
      <<"x">> \o UnexpectedTokenPrefix \o <<"}">> }

HeadBare == UnexpectedTokenPrefix \o <<"}">>

\* the numbers a location clause can carry, each with the text the parser prints
Offsets ==
    {[value |-> n, text |-> ToDecimal(n)] : n \in 0..MaxOffset}
    \cup {[value |-> 1, text |-> <<"0">> \o ToDecimal(1)]}
LineColumns == {<<1, 1>>, <<2, 12>>, <<0, 0>>}

NoTail == [tail |-> "none", offset |-> <<>>, line |-> <<>>, column |-> <<>>,
           offsetValue |-> 0, lineValue |-> 0, columnValue |-> 0]

NoFault == [class |-> "none", origin |-> "none", head |-> <<>>] @@ NoTail

OffsetTail(o) ==
    [NoTail EXCEPT !.tail = "offset", !.offset = o.text, !.offsetValue = o.value]

Tails ==
    {NoTail}
    \cup {OffsetTail(o) : o \in Offsets}
    \cup {[NoTail EXCEPT !.tail = "broken", !.offset = ToDecimal(0)]}
    \cup {[NoTail EXCEPT !.tail = "full", !.offset = ToDecimal(n), !.offsetValue = n,
                         !.line = ToDecimal(lc[1]), !.lineValue = lc[1],
                         !.column = ToDecimal(lc[2]), !.columnValue = lc[2]] :
             n \in {0, MaxOffset}, lc \in LineColumns}
SimpleTails == {NoTail, OffsetTail([value |-> 0, text |-> ToDecimal(0)])}

MakeFault(class, origin, head, t) ==
    [class |-> class, origin |-> origin, head |-> head] @@ t

\* failures of the parser itself: every head with a simple tail (the bare
\* prefix with none), and two heads with every tail
ParserFaults ==
    {MakeFault("SyntaxError", "parser", h, t) :
        h \in Heads \ {UnexpectedTokenPrefix}, t \in SimpleTails}
    \cup {MakeFault("SyntaxError", "parser", UnexpectedTokenPrefix, NoTail)}
    \cup {MakeFault("SyntaxError", "parser", h, t) : h \in {HeadBare, UnexpectedEnd}, t \in Tails}
\* failures raised by the reviver callback: an Error, or a value that is no Error
ReviverFaults ==
    {MakeFault("TypeError", "reviver", UnexpectedEnd, t) : t \in SimpleTails}
    \cup {MakeFault("NotAnError", "reviver", <<>>, NoTail)}
Faults == {NoFault} \cup ParserFaults \cup ReviverFaults

\* ----------------------------------------------------------------- state
VARIABLES
    pc,             \* where the call of parseJson stands
    string,         \* parseJson's argument string
    reviver,        \* parseJson's argument reviver
    fileName,       \* parseJson's argument fileName
    fault,          \* what the external parser will do on this call
    parseArgs,      \* the arguments JSON.parse was called with
    message,        \* parseJson's local message
    location,       \* parseJson's local location
    converterCalls, \* the offsets handed to indexToPosition
    jsonError,      \* the JSONError object
    returned,       \* the value parseJson returned
    thrownValue,    \* the value parseJson threw, when it is not the JSONError
    lastRead        \* what the caller's latest operation on the JSONError returned

vars == <<pc, string, reviver, fileName, fault, parseArgs, message, location,
          converterCalls, jsonError, returned, thrownValue, lastRead>>

inputs == <<string, reviver, fileName, fault>>

Init ==
    /\ pc = "start"
    /\ string \in Texts
    /\ reviver \in Revivers
    /\ fileName \in FileNames
    /\ fault \in Faults
    \* the external parser never accepts the empty text
    /\ string = <<>> => fault \in ParserFaults
    /\ parseArgs = <<>>
    /\ message = Undefined
    /\ location = NoLocation
    /\ converterCalls = <<>>
    /\ jsonError = NoError
    /\ returned = NoValue
    /\ thrownValue = NoThrown
    /\ lastRead = Undefined

\* lines 179-180: the external parser returns, and so does parseJson
ParseReturns ==
    LET try == parseJsonTry(string, reviver, fault)
    IN /\ pc = "start"
       /\ try.out.kind = "value"
       /\ parseArgs' = try.args
       /\ returned' = try.out.value
       /\ pc' = "returned"
       /\ UNCHANGED <<inputs, message, location, converterCalls, jsonError,
                      thrownValue, lastRead>>

\* lines 181-183: the external parser throws an Error, its message is kept
ParseCatches ==
    LET try == parseJsonTry(string, reviver, fault)
    IN /\ pc = "start"
       /\ try.out.kind = "throw"
       /\ InstanceofError(try.out.thrown)
       /\ parseArgs' = try.args
       /\ message' = try.out.thrown.message
       /\ pc' = "caught"
       /\ UNCHANGED <<inputs, location, converterCalls, jsonError, returned,
                      thrownValue, lastRead>>

\* lines 184-186: the external parser throws something else, rethrown as it is
ParseRethrows ==
    LET try == parseJsonTry(string, reviver, fault)
    IN /\ pc = "start"
       /\ try.out.kind = "throw"
       /\ ~InstanceofError(try.out.thrown)
       /\ parseArgs' = try.args
       /\ thrownValue' = try.out.thrown
       /\ pc' = "rethrown"
       /\ UNCHANGED <<inputs, message, location, converterCalls, jsonError,
                      returned, lastRead>>

\* lines 189-195: location and base message
Locates ==
    LET loc == parseJsonLocation(string, message)
    IN /\ pc = "caught"
       /\ ~loc.threw
       /\ location' = loc.location
       /\ converterCalls' = loc.calls
       /\ message' = parseJsonMessage(string, message)
       /\ pc' = "located"
       /\ UNCHANGED <<inputs, parseArgs, jsonError, returned, thrownValue, lastRead>>

\* line 191: indexToPosition throws inside getErrorLocation; nothing catches it
LocateThrows ==
    LET loc == parseJsonLocation(string, message)
    IN /\ pc = "caught"
       /\ loc.threw
       /\ converterCalls' = loc.calls
       /\ thrownValue' = [class |-> "RangeError", origin |-> "indexToPosition",
                          message |-> Undefined]
       /\ pc' = "rangeError"
       /\ UNCHANGED <<inputs, parseArgs, message, location, jsonError, returned,
                      lastRead>>

\* line 197: new JSONError(message, string, location)
Constructs ==
    /\ pc = "located"
    /\ jsonError' = JSONErrorNew(message, string, location)
    /\ pc' = "constructed"
    /\ UNCHANGED <<inputs, parseArgs, message, location, converterCalls, returned,
                   thrownValue, lastRead>>

\* lines 198-200: the file name is attached and the JSONError thrown
Throws ==
    /\ pc = "constructed"
    /\ jsonError' = parseJsonAttach(jsonError, fileName)
    /\ pc' = "thrown"
    /\ UNCHANGED <<inputs, parseArgs, message, location, converterCalls, returned,
                   thrownValue, lastRead>>

\* the caller reads jsonError.message
ReadMessage ==
    /\ pc = "thrown"
    /\ lastRead' = JSONErrorMessage(jsonError)
    /\ UNCHANGED <<pc, inputs, parseArgs, message, location, converterCalls,
                   jsonError, returned, thrownValue>>

\* the caller assigns jsonError.message
SetMessage ==
    /\ pc = "thrown"
    /\ \E m \in AssignedMessages : jsonError' = JSONErrorSetMessage(jsonError, m)
    /\ lastRead' = Undefined
    /\ UNCHANGED <<pc, inputs, parseArgs, message, location, converterCalls,
                   returned, thrownValue>>

\* the caller assigns jsonError.fileName (a public, writable field)
SetFileName ==
    /\ pc = "thrown"
    /\ \E f \in AssignedFileNames : jsonError' = [jsonError EXCEPT !.fileName = f]
    /\ lastRead' = Undefined
    /\ UNCHANGED <<pc, inputs, parseArgs, message, location, converterCalls,
                   returned, thrownValue>>

Next ==
    \/ ParseReturns
    \/ ParseCatches
    \/ ParseRethrows
    \/ Locates
    \/ LocateThrows
    \/ Constructs
    \/ Throws
    \/ ReadMessage
    \/ SetMessage
    \/ SetFileName

Spec == Init /\ [][Next]_vars

TypeOK ==
    /\ pc \in {"start", "returned", "caught", "rethrown", "located", "rangeError",
               "constructed", "thrown"}
    /\ jsonError.constructed <=> pc \in {"constructed", "thrown"}

\* ---------------------------------------------------------------- claims
ParserOutcome == JSONParse(string, reviver, fault)
Finished == pc \in {"returned", "rethrown", "rangeError", "thrown"}
AfterLocates == pc \in {"located", "constructed", "thrown"}
Constructed == pc \in {"constructed", "thrown"}

\* C1: whenever the failure's message has the shape 'in JSON at position
\* <offset>', with or without ' (line <l> column <c>)', parseJson ends by
\* throwing the JSONError: it never returns and never throws anything else,
\* whatever the offset.
C1_LocatedFailureEndsInJSONError ==
    (/\ ParserOutcome.kind = "throw"
     /\ InstanceofError(ParserOutcome.thrown)
     /\ fault.tail \in {"offset", "full"}
     /\ Finished)
    => pc = "thrown"

\* C2: a failure of the parser call that is no parsing error, also every
\* failure raised by the reviver, reaches the caller as the same value: it is
\* never wrapped in a JSONError and never given a code frame.
C2_NonParseFailureUnchanged ==
    (/\ ParserOutcome.kind = "throw"
     /\ ~(ParserOutcome.thrown.origin = "parser"
          /\ ParserOutcome.thrown.class = "SyntaxError"))
    => /\ ~jsonError.constructed
       /\ Finished => (pc = "rethrown" /\ thrownValue = ParserOutcome.thrown)

\* C3: every read of message returns the current base message, then
\* ' in <fileName>' if a (non-empty) file name is currently set, then
\* '\n\n' + codeFrame + '\n' if the highlighted frame is present, whatever
\* assignments to fileName and message came before the read.
C3_MessageComposedOnEachRead ==
    (pc = "thrown" /\ lastRead # Undefined)
    => lastRead =
         jsonError.baseMessage
         \o (IF jsonError.fileName # Undefined /\ jsonError.fileName # <<>>
             THEN <<" ", "i", "n", " ">> \o jsonError.fileName ELSE <<>>)
         \o (IF jsonError.codeFrame # Undefined
             THEN <<"\n", "\n">> \o jsonError.codeFrame \o <<"\n">> ELSE <<>>)

C3_Witness ==
    /\ pc = "thrown"
    /\ lastRead # Undefined
    /\ jsonError.fileName = <<"g">>
    /\ fileName # <<"g">>
    /\ jsonError.baseMessage = <<"m">>
    /\ jsonError.codeFrame # Undefined

\* C4: when the external parser succeeds, parseJson returns exactly the
\* parser's value for (string, reviver), has handed it the reviver unchanged,
\* and no JSONError is constructed.
C4_SuccessReturnsParserValue ==
    ParserOutcome.kind = "value"
    => /\ pc \in {"start", "returned"}
       /\ ~jsonError.constructed
       /\ pc = "returned"
            => /\ returned = [text |-> string, revivedBy |-> reviver]
               /\ parseArgs = <<string, reviver>>

C4_Witness ==
    /\ pc = "returned"
    /\ reviver # Undefined
    /\ string # <<>>
    /\ returned.revivedBy = <<"r">>

\* C5: for the empty text, whatever the raw message, no location is extracted
\* and no token is enhanced: the base message is the raw message followed by
\* ' while parsing empty string', and codeFrame and rawCodeFrame are absent.
C5_EmptyTextMessageOnly ==
    (string = <<>> /\ AfterLocates)
    => /\ message = RawMessage(fault) \o EmptyStringClause
       /\ location = NoLocation
       /\ converterCalls = <<>>
       /\ pc = "constructed" => jsonError.baseMessage = message
       /\ Constructed => /\ jsonError.codeFrame = Undefined
                         /\ jsonError.rawCodeFrame = Undefined

C5_Witness ==
    /\ string = <<>>
    /\ pc = "thrown"
    /\ fault.head = HeadBare
    /\ fault.tail = "offset"
    /\ jsonError.baseMessage = RawMessage(fault) \o EmptyStringClause

\* C6 as stated: once constructed, fileName, codeFrame and rawCodeFrame keep
\* their values through reading message, assigning message and the rest of
\* parseJson.
C6_OtherFieldsFixed ==
    [][(jsonError.constructed /\ (ReadMessage \/ SetMessage \/ Throws))
       => /\ jsonError'.fileName = jsonError.fileName
          /\ jsonError'.codeFrame = jsonError.codeFrame
          /\ jsonError'.rawCodeFrame = jsonError.rawCodeFrame]_vars

\* C6 amended: once constructed, codeFrame and rawCodeFrame keep their values
\* through every later operation; fileName changes only when parseJson
\* attaches its argument before the throw or when the caller assigns it.
C6_FramesFixed ==
    [][jsonError.constructed
       => /\ jsonError'.codeFrame = jsonError.codeFrame
          /\ jsonError'.rawCodeFrame = jsonError.rawCodeFrame
          /\ (ReadMessage \/ SetMessage) => jsonError'.fileName = jsonError.fileName]_vars

C6_Witness ==
    /\ pc = "thrown"
    /\ jsonError.codeFrame # Undefined
    /\ jsonError.rawCodeFrame # Undefined
    /\ jsonError.baseMessage = <<"m">>
    /\ jsonError.fileName = <<"f">>
    /\ lastRead # Undefined

\* C7: a raw message with no recognized location clause still ends in a
\* JSONError, which carries no codeFrame and no rawCodeFrame; a JSONError
\* carries frames only if a location was found.
C7_NoLocationNoFrame ==
    /\ (/\ ParserOutcome.kind = "throw"
        /\ InstanceofError(ParserOutcome.thrown)
        /\ fault.tail \in {"none", "broken"})
       => /\ pc \notin {"returned", "rethrown", "rangeError"}
          /\ AfterLocates => location = NoLocation
          /\ Constructed => /\ jsonError.codeFrame = Undefined
                            /\ jsonError.rawCodeFrame = Undefined
    /\ (Constructed
        /\ (jsonError.codeFrame # Undefined \/ jsonError.rawCodeFrame # Undefined))
       => location # NoLocation

C7_Witness ==
    /\ pc = "thrown"
    /\ string # <<>>
    /\ fault.tail = "broken"
    /\ jsonError.codeFrame = Undefined

\* C8: for a non-empty text and a message with an offset only: offset =
\* length(text) gives the line of toPosition(text, length - 1) and its column
\* plus 1; every other offset gives exactly toPosition(text, offset), which
\* throws beyond the text.
C8_OffsetOnlyLocation ==
    (string # <<>> /\ fault.tail = "offset" /\ ParserOutcome.kind = "throw"
     /\ InstanceofError(ParserOutcome.thrown))
    => /\ AfterLocates =>
            IF fault.offsetValue = Len(string)
            THEN location = <<indexToPosition(string, Len(string) - 1).line,
                              indexToPosition(string, Len(string) - 1).column + 1>>
            ELSE /\ ~indexToPosition(string, fault.offsetValue).threw
                 /\ location = <<indexToPosition(string, fault.offsetValue).line,
                                 indexToPosition(string, fault.offsetValue).column>>
       /\ pc = "rangeError" => /\ fault.offsetValue # Len(string)
                               /\ indexToPosition(string, fault.offsetValue).threw

C8_Witness ==
    /\ pc = "located"
    /\ string # <<>>
    /\ fault.tail = "offset"
    /\ fault.offsetValue = Len(string)
    /\ string[Len(string)] = "\n"
    /\ location = <<1, Len(string) + 1>>

\* C9: for a non-empty text and a message with an explicit line and column,
\* the location is that line and column as numbers, whatever the offset; the
\* Position Converter is not called.
C9_ExplicitLineColumnTrusted ==
    (string # <<>> /\ fault.tail = "full" /\ ParserOutcome.kind = "throw"
     /\ InstanceofError(ParserOutcome.thrown))
    => /\ pc # "rangeError"
       /\ AfterLocates => /\ location = <<fault.lineValue, fault.columnValue>>
                          /\ converterCalls = <<>>

C9_Witness ==
    /\ pc = "located"
    /\ fault.tail = "full"
    /\ fault.offsetValue > Len(string)
    /\ location = <<2, 12>>

\* the token the raw message names: the units after 'Unexpected token ' up to
\* the next space or the end of the message
RECURSIVE TokenEnd(_, _)
TokenEnd(s, i) == IF i <= Len(s) /\ s[i] # " " THEN TokenEnd(s, i + 1) ELSE i
NamedToken(s) ==
    SubSeq(s, Len(UnexpectedTokenPrefix) + 1,
           TokenEnd(s, Len(UnexpectedTokenPrefix) + 1) - 1)
HasTokenShape(s) ==
    /\ MatchesAt(s, 1, UnexpectedTokenPrefix)
    /\ \/ Len(NamedToken(s)) = 1
       \/ (Len(NamedToken(s)) = 3 /\ NamedToken(s)[1] = "'" /\ NamedToken(s)[3] = "'")
TokenCharacter(s) ==
    IF Len(NamedToken(s)) = 1 THEN NamedToken(s)[1] ELSE NamedToken(s)[2]

\* C10: the enhancer rewrites a raw message exactly when it is 'Unexpected
\* token <X>' with <X> one character, bare or in single quotes: the token
\* becomes "<X>"(\u{hex}) and the rest is kept; every other message (one not
\* starting with the prefix, one whose token is longer) is left unchanged.
C10_EnhancerExactShape ==
    (string # <<>> /\ AfterLocates)
    => LET raw == RawMessage(fault)
       IN IF HasTokenShape(raw)
          THEN message =
                 UnexpectedTokenPrefix
                 \o <<"\"", TokenCharacter(raw), "\"", "(", "\\", "u", "{">>
                 \o ToHex(CodePointAt0(TokenCharacter(raw))) \o <<"}", ")">>
                 \o SubSeq(raw, TokenEnd(raw, Len(UnexpectedTokenPrefix) + 1), Len(raw))
          ELSE message = raw

====
